---------------------------- MODULE Spec2Model ----------------------------
(* FI-MCP: the introspection-to-schema pipeline and the tool dispatcher.   *)
(*                                                                          *)
(* Python strings are sequences of one-character strings, so that prefix   *)
(* tests, substring tests, replacement, stripping and ordering are         *)
(* computed and not assumed.  Python values that are only stored and       *)
(* passed on (argument values, defaults, results) are atoms.               *)
EXTENDS Integers, Sequences, FiniteSets, TLC

VARIABLES fi_functions, tool_schemas, pc, request, response

vars == <<fi_functions, tool_schemas, pc, request, response>>

(* ------------------------------ bounds --------------------------------- *)

\* longest parameter list drawn for the binder and the validator
MaxParams == 2

(* --------------------------- Python values ----------------------------- *)

\* the value None
None == "None"

\* inspect.Parameter.empty: the default of a parameter that declares none
empty == "<empty>"

\* the argument values a request payload may carry (JSON null included)
Values == {None, "v1", "v2"}

\* the defaults a signature may declare (None is an ordinary default)
Defaults == {None, "d1"}

\* the parameter names of the signatures drawn
ParamNames == {<<"x">>, <<"y">>, <<"z">>}

\* an empty dict that keeps insertion order ({})
EmptyDict == [keys |-> <<>>, map |-> <<>>]

\* dict.get(key): the value stored under key, None when key is absent
DictGet(d, key) == IF key \in DOMAIN d THEN d[key] ELSE None

(* --------------------------- Python strings ---------------------------- *)

\* the characters str.strip, str.split and the regex class \s treat as space
Whitespace == {" ", "\n"}

\* p occurs in s starting at index i (1-based)
OccursAt(s, p, i) ==
    /\ i >= 1
    /\ i + Len(p) - 1 <= Len(s)
    /\ SubSeq(s, i, i + Len(p) - 1) = p

\* s.startswith(p)
StartsWith(s, p) == OccursAt(s, p, 1)

\* p in s
Contains(s, p) == \E i \in 1..(Len(s) + 1) : OccursAt(s, p, i)

\* s[n:]
DropFirst(s, n) == IF n >= Len(s) THEN <<>> ELSE SubSeq(s, n + 1, Len(s))

\* s.replace(old, new): every non-overlapping occurrence, left to right
RECURSIVE Replace(_, _, _)
Replace(s, old, new) ==
    IF s = <<>>
    THEN <<>>
    ELSE IF StartsWith(s, old)
         THEN new \o Replace(DropFirst(s, Len(old)), old, new)
         ELSE <<Head(s)>> \o Replace(Tail(s), old, new)

RECURSIVE lstrip(_)
lstrip(s) ==
    IF s # <<>> /\ Head(s) \in Whitespace THEN lstrip(Tail(s)) ELSE s

RECURSIVE rstrip(_)
rstrip(s) ==
    IF s # <<>> /\ s[Len(s)] \in Whitespace
    THEN rstrip(SubSeq(s, 1, Len(s) - 1))
    ELSE s

\* s.strip()
strip(s) == rstrip(lstrip(s))

\* s.split(sep) for a one-character separator: "".split(sep) is [""]
RECURSIVE SplitOn(_, _)
SplitOn(s, sep) ==
    IF \A i \in 1..Len(s) : s[i] # sep
    THEN <<s>>
    ELSE LET i == CHOOSE k \in 1..Len(s) :
                      s[k] = sep /\ \A j \in 1..(k - 1) : s[j] # sep
         IN  <<SubSeq(s, 1, i - 1)>> \o SplitOn(DropFirst(s, i), sep)

\* sep.join(parts)
RECURSIVE Join(_, _)
Join(sep, parts) ==
    IF parts = <<>>
    THEN <<>>
    ELSE IF Len(parts) = 1
         THEN parts[1]
         ELSE parts[1] \o sep \o Join(sep, Tail(parts))

\* s.split(): the maximal runs of non-space characters
RECURSIVE split(_)
split(s) ==
    LET t == lstrip(s)
    IN  IF t = <<>>
        THEN <<>>
        ELSE LET n == CHOOSE k \in 1..Len(t) :
                          /\ \A j \in 1..k : t[j] \notin Whitespace
                          /\ (k = Len(t) \/ t[k + 1] \in Whitespace)
             IN  <<SubSeq(t, 1, n)>> \o split(DropFirst(t, n))

\* the code point of a character (ord), for the characters of the names drawn
ord(c) ==
    CASE c = "_" -> 95 [] c = "a" -> 97 [] c = "f" -> 102 [] c = "i" -> 105
      [] c = "l" -> 108 [] c = "p" -> 112 [] c = "v" -> 118

\* a < b for Python strings: by code point, a proper prefix first
RECURSIVE StrLess(_, _)
StrLess(a, b) ==
    IF b = <<>>
    THEN FALSE
    ELSE IF a = <<>>
         THEN TRUE
         ELSE IF Head(a) = Head(b)
              THEN StrLess(Tail(a), Tail(b))
              ELSE ord(Head(a)) < ord(Head(b))

(* ------------------------------ docstrings ----------------------------- *)

\* func.__doc__ of a function that has no docstring
NoDoc == <<"None">>

\* truth value of a docstring: None and "" are false
Truthy(docstring) == docstring # NoDoc /\ docstring # <<>>

\* the indentation of a line
Indent(line) == Len(line) - Len(lstrip(line))

\* inspect.cleandoc: the first line loses its leading space, the other lines
\* the smallest indentation of a non-blank one among them, then the blank
\* lines at both ends are dropped
RECURSIVE DropTrailingEmpty(_)
DropTrailingEmpty(lines) ==
    IF lines # <<>> /\ lines[Len(lines)] = <<>>
    THEN DropTrailingEmpty(SubSeq(lines, 1, Len(lines) - 1))
    ELSE lines

RECURSIVE DropLeadingEmpty(_)
DropLeadingEmpty(lines) ==
    IF lines # <<>> /\ Head(lines) = <<>>
    THEN DropLeadingEmpty(Tail(lines))
    ELSE lines

cleandoc(doc) ==
    LET lines == SplitOn(doc, "\n")
        indents == {Indent(lines[i]) :
                       i \in {j \in 2..Len(lines) : lstrip(lines[j]) # <<>>}}
        dedented == [i \in 1..Len(lines) |->
                        IF i = 1
                        THEN lstrip(lines[1])
                        ELSE IF indents = {}
                             THEN lines[i]
                             ELSE DropFirst(lines[i],
                                      CHOOSE m \in indents :
                                          \A n \in indents : m <= n)]
    IN  Join(<<"\n">>, DropLeadingEmpty(DropTrailingEmpty(dedented)))

\* the match of (.*?)(?=###|$) at the start of cleaned: the shortest prefix
\* followed by "###", by the end, or by a newline that ends the string
DescriptionMatch(cleaned) ==
    LET stops == {k \in 0..Len(cleaned) :
                     \/ OccursAt(cleaned, <<"#", "#", "#">>, k + 1)
                     \/ k = Len(cleaned)
                     \/ (k = Len(cleaned) - 1 /\ cleaned[Len(cleaned)] = "\n")}
        k == CHOOSE m \in stops : \A n \in stops : m <= n
    IN  SubSeq(cleaned, 1, k)

\* parse_markdown_docstring(docstring)["description"]
ParsedDescription(docstring) ==
    IF ~Truthy(docstring)
    THEN <<>>
    ELSE strip(DescriptionMatch(cleandoc(docstring)))

(* --------------------------- type annotations -------------------------- *)

\* the declared parameter types drawn: builtin classes, typing containers,
\* a literal type, domain value classes, a string annotation, and
\* inspect.Parameter.empty for a parameter that declares no type
Annotations ==
    {"float",
     "int",
     "str",
     "bool",
     "List[float]",
     "List[int]",
     "Dict[str, float]",
     "Dict[str, List[float]]",
     "Optional[float]",
     "Literal['a', 'b']",
     "Money",
     "Percent",
     "'float'",
     "_empty"}

\* str(type_annotation)
type_str(type_annotation) ==
    CASE type_annotation = "float" ->
           <<"<", "c", "l", "a", "s", "s", " ", "'", "f", "l", "o", "a", "t", "'", ">">>
      [] type_annotation = "int" ->
           <<"<", "c", "l", "a", "s", "s", " ", "'", "i", "n", "t", "'", ">">>
      [] type_annotation = "str" ->
           <<"<", "c", "l", "a", "s", "s", " ", "'", "s", "t", "r", "'", ">">>
      [] type_annotation = "bool" ->
           <<"<", "c", "l", "a", "s", "s", " ", "'", "b", "o", "o", "l", "'", ">">>
      [] type_annotation = "List[float]" ->
           <<"t", "y", "p", "i", "n", "g", ".", "L", "i", "s", "t", "[", "f", "l", "o", "a", "t", "]">>
      [] type_annotation = "List[int]" ->
           <<"t", "y", "p", "i", "n", "g", ".", "L", "i", "s", "t", "[", "i", "n", "t", "]">>
      [] type_annotation = "Dict[str, float]" ->
           <<"t", "y", "p", "i", "n", "g", ".", "D", "i", "c", "t", "[", "s", "t", "r", ",", " ", "f", "l", "o", "a", "t", "]">>
      [] type_annotation = "Dict[str, List[float]]" ->
           <<"t", "y", "p", "i", "n", "g", ".", "D", "i", "c", "t", "[", "s", "t", "r", ",", " ", "t", "y", "p", "i", "n", "g", ".", "L", "i", "s", "t", "[", "f", "l", "o", "a", "t", "]", "]">>
      [] type_annotation = "Optional[float]" ->
           <<"t", "y", "p", "i", "n", "g", ".", "O", "p", "t", "i", "o", "n", "a", "l", "[", "f", "l", "o", "a", "t", "]">>
      [] type_annotation = "Literal['a', 'b']" ->
           <<"t", "y", "p", "i", "n", "g", ".", "L", "i", "t", "e", "r", "a", "l", "[", "'", "a", "'", ",", " ", "'", "b", "'", "]">>
      [] type_annotation = "Money" ->
           <<"<", "c", "l", "a", "s", "s", " ", "'", "f", "i", ".", "M", "o", "n", "e", "y", "'", ">">>
      [] type_annotation = "Percent" ->
           <<"<", "c", "l", "a", "s", "s", " ", "'", "f", "i", ".", "P", "e", "r", "c", "e", "n", "t", "'", ">">>
      [] type_annotation = "'float'" ->
           <<"f", "l", "o", "a", "t">>
      [] type_annotation = "_empty" ->
           <<"<", "c", "l", "a", "s", "s", " ", "'", "i", "n", "s", "p", "e", "c", "t", ".", "_", "e", "m", "p", "t", "y", "'", ">">>

\* convert_type_annotation with the basic types tested before the containers
ConvertBasicFirst(type_annotation) ==
    LET s == type_str(type_annotation)
    IN  IF type_annotation = "float" \/ Contains(s, <<"f", "l", "o", "a", "t">>)
        THEN "number"
        ELSE IF type_annotation = "int" \/ Contains(s, <<"i", "n", "t">>)
        THEN "integer"
        ELSE IF type_annotation = "str" \/ Contains(s, <<"s", "t", "r">>)
        THEN "string"
        ELSE IF type_annotation = "bool" \/ Contains(s, <<"b", "o", "o", "l">>)
        THEN "boolean"
        ELSE IF Contains(s, <<"L", "i", "s", "t">>) \/ Contains(s, <<"l", "i", "s", "t">>)
        THEN "array"
        ELSE IF Contains(s, <<"D", "i", "c", "t">>) \/ Contains(s, <<"d", "i", "c", "t">>)
        THEN "object"
        ELSE "string"

convert_type_annotation(type_annotation) ==
    LET s == type_str(type_annotation)
    IN  IF Contains(s, <<"L", "i", "s", "t">>) \/ Contains(s, <<"l", "i", "s", "t">>)
        THEN "array"
        ELSE IF Contains(s, <<"D", "i", "c", "t">>) \/ Contains(s, <<"d", "i", "c", "t">>)
        THEN "object"
        ELSE IF type_annotation = "float" \/ Contains(s, <<"f", "l", "o", "a", "t">>)
        THEN "number"
        ELSE IF type_annotation = "int" \/ Contains(s, <<"i", "n", "t">>)
        THEN "integer"
        ELSE IF type_annotation = "str" \/ Contains(s, <<"s", "t", "r">>)
        THEN "string"
        ELSE IF type_annotation = "bool" \/ Contains(s, <<"b", "o", "o", "l">>)
        THEN "boolean"
        ELSE "string"

(* --------------------------- schema generator -------------------------- *)

\* s.strip(chars)
RECURSIVE StripChars(_, _)
StripChars(s, chars) ==
    IF s # <<>> /\ Head(s) \in chars
    THEN StripChars(Tail(s), chars)
    ELSE IF s # <<>> /\ s[Len(s)] \in chars
         THEN StripChars(SubSeq(s, 1, Len(s) - 1), chars)
         ELSE s

\* the loop of _extract_literal_values over the comma-separated values
RECURSIVE CleanedValues(_)
CleanedValues(values) ==
    IF values = <<>>
    THEN <<>>
    ELSE LET value == StripChars(strip(Head(values)), {"'", "\""})
         IN  IF value # <<>>
             THEN <<value>> \o CleanedValues(Tail(values))
             ELSE CleanedValues(Tail(values))

\* _extract_literal_values: the leftmost match of Literal\[(.*?)\]
extract_literal_values(s) ==
    LET opener == <<"L", "i", "t", "e", "r", "a", "l", "[">>
        starts == {i \in 1..Len(s) :
                      /\ OccursAt(s, opener, i)
                      /\ \E j \in (i + Len(opener))..Len(s) : s[j] = "]"}
    IN  IF starts = {}
        THEN <<>>
        ELSE LET i == CHOOSE m \in starts : \A n \in starts : m <= n
                 from == i + Len(opener)
                 j == CHOOSE m \in from..Len(s) :
                          s[m] = "]" /\ \A n \in from..(m - 1) : s[n] # "]"
             IN  CleanedValues(SplitOn(SubSeq(s, from, j - 1), ","))

\* properties[param_name] as generate_mcp_tool_schema builds it.  The
\* description text of a property (extract_param_description) is read by no
\* operation specified here and is left out of the record.
PropertySchema(param) ==
    LET param_type == convert_type_annotation(param.annotation)
        annotation_str == type_str(param.annotation)
        literal_values == extract_literal_values(annotation_str)
    IN  IF StartsWith(annotation_str, <<"t", "y", "p", "i", "n", "g", ".", "L", "i", "t", "e", "r", "a", "l">>) /\ literal_values # <<>>
        THEN [type |-> param_type, enum |-> literal_values]
        ELSE [type |-> param_type]

\* the names of the parameters that declare no default, in declaration order
RECURSIVE RequiredNames(_)
RequiredNames(params) ==
    IF params = <<>>
    THEN <<>>
    ELSE IF Head(params).default = empty
         THEN <<Head(params).name>> \o RequiredNames(Tail(params))
         ELSE RequiredNames(Tail(params))

\* _get_function_description without the test for an empty description
DescriptionUnchecked(docstring) ==
    IF ~Truthy(docstring)
    THEN [ok |-> FALSE, error |-> "Function is missing a docstring"]
    ELSE [ok |-> TRUE,
          value |-> Join(<<" ">>, split(ParsedDescription(docstring)))]

\* _get_function_description: the description, or the ValueError raised
get_function_description(docstring) ==
    IF ~Truthy(docstring)
    THEN [ok |-> FALSE, error |-> "Function is missing a docstring"]
    ELSE LET description == ParsedDescription(docstring)
         IN  IF description = <<>>
             THEN [ok |-> FALSE,
                   error |-> "Docstring has no description section"]
             ELSE [ok |-> TRUE, value |-> Join(<<" ">>, split(description))]

\* the tool-name prefix
FI_PREFIX == <<"f", "i", "_">>

\* generate_mcp_tool_schema: the schema, or the exception raised
generate_mcp_tool_schema(func_name, func) ==
    LET params == func.params
        names == {params[i].name : i \in 1..Len(params)}
        properties == [n \in names |->
                          PropertySchema(params[CHOOSE i \in 1..Len(params) :
                                                    params[i].name = n])]
        required == RequiredNames(params)
        description == get_function_description(func.doc)
    IN  IF ~description.ok
        THEN [ok |-> FALSE, error |-> description.error]
        ELSE [ok |-> TRUE,
              schema |-> [name |-> FI_PREFIX \o func_name,
                          description |-> description.value,
                          parameters |->
                              [type |-> "object",
                               properties |-> properties,
                               required |-> required,
                               additionalProperties |-> FALSE]]]

(* ------------------------- argument binder ----------------------------- *)

\* the loop of get_mcp_func_args from parameter i on, fun_args bound so far
RECURSIVE BindFrom(_, _, _, _)
BindFrom(fun_params, mcp_arguments, i, fun_args) ==
    IF i > Len(fun_params)
    THEN [fail |-> FALSE, fun_args |-> fun_args]
    ELSE LET arg_name == fun_params[i].name
             arg_passed == DictGet(mcp_arguments, arg_name)
         IN  IF arg_passed = None
             THEN IF fun_params[i].default = empty
                  THEN [fail |-> TRUE, fun_args |-> fun_args]
                  ELSE BindFrom(fun_params, mcp_arguments, i + 1,
                                Append(fun_args, fun_params[i].default))
             ELSE BindFrom(fun_params, mcp_arguments, i + 1,
                           Append(fun_args, arg_passed))

get_mcp_func_args(fun_params, mcp_arguments) ==
    BindFrom(fun_params, mcp_arguments, 1, <<>>)

\* validate_mcp_arguments with the presence test done on the looked-up value
RECURSIVE MissingByValue(_, _)
MissingByValue(fun_params, mcp_arguments) ==
    IF fun_params = <<>>
    THEN <<>>
    ELSE LET param == Head(fun_params)
             rest == MissingByValue(Tail(fun_params), mcp_arguments)
         IN  IF param.default = empty
                /\ DictGet(mcp_arguments, param.name) = None
             THEN <<param.name>> \o rest
             ELSE rest

RECURSIVE validate_mcp_arguments(_, _)
validate_mcp_arguments(fun_params, mcp_arguments) ==
    IF fun_params = <<>>
    THEN <<>>
    ELSE LET param == Head(fun_params)
             rest == validate_mcp_arguments(Tail(fun_params), mcp_arguments)
         IN  IF param.default = empty /\ param.name \notin DOMAIN mcp_arguments
             THEN <<param.name>> \o rest
             ELSE rest

(* ------------------- inputs of the binder specification ---------------- *)

\* a parameter of a signature
Param(name, default, annotation) ==
    [name |-> name, default |-> default, annotation |-> annotation]

\* the signatures of at most n parameters: names distinct, in any order
RECURSIVE ParamLists(_)
ParamLists(n) ==
    IF n = 0
    THEN {<<>>}
    ELSE LET shorter == ParamLists(n - 1)
         IN  shorter \cup
             {Append(ps, Param(nm, d, "float")) :
                 ps \in {q \in shorter : Len(q) = n - 1},
                 nm \in ParamNames, d \in Defaults \cup {empty}}

DistinctNames(ps) ==
    \A i, j \in 1..Len(ps) : ps[i].name = ps[j].name => i = j

Signatures == {ps \in ParamLists(MaxParams) : DistinctNames(ps)}

\* the request payloads: any keys among the names, any values
Payloads ==
    UNION {[keys -> Values] : keys \in SUBSET ParamNames}

Idle == [op |-> "none"]

InitBind ==
    /\ fi_functions = EmptyDict
    /\ tool_schemas = EmptyDict
    /\ pc = "bind"
    /\ \E ps \in Signatures, args \in Payloads :
           request = [op |-> "bind", fun_params |-> ps, mcp_arguments |-> args]
    /\ response = Idle

Bind ==
    /\ pc = "bind"
    /\ LET r == get_mcp_func_args(request.fun_params, request.mcp_arguments)
       IN  response' = [op |-> "get_mcp_func_args", fail |-> r.fail,
                        fun_args |-> r.fun_args]
    /\ UNCHANGED <<fi_functions, tool_schemas, pc, request>>

Validate ==
    /\ pc = "bind"
    /\ response' = [op |-> "validate_mcp_arguments",
                    missing |-> validate_mcp_arguments(request.fun_params,
                                                       request.mcp_arguments)]
    /\ UNCHANGED <<fi_functions, tool_schemas, pc, request>>

NextBind == Bind \/ Validate

SpecBind == InitBind /\ [][NextBind]_vars


(* ------------- inputs of the schema-generator specification ------------ *)

\* longest docstring drawn for the schema generator
MaxDocLen == 4

\* the characters of the docstrings drawn: text, the two kinds of space,
\* and the heading marker
DocAlphabet == {"a", " ", "\n", "#"}

\* the docstrings of at most n characters, and the absent docstring
Docstrings(n) == {NoDoc} \cup UNION {[1..k -> DocAlphabet] : k \in 0..n}

\* the signatures drawn for the schema generator: none, one parameter of
\* each declared type with and without a default, and two of two parameters
SchemaSignatures ==
    {<<>>}
    \cup {<<Param(<<"x">>, d, a)>> : a \in Annotations, d \in {empty, "d1"}}
    \cup {<<Param(<<"y">>, empty, "List[float]"), Param(<<"x">>, "d1", "float")>>,
          <<Param(<<"x">>, empty, "Money"), Param(<<"y">>, empty, "List[int]")>>}

InitSchema ==
    /\ fi_functions = EmptyDict
    /\ tool_schemas = EmptyDict
    /\ pc = "schema"
    /\ \E ps \in SchemaSignatures, doc \in Docstrings(MaxDocLen) :
           request = [op |-> "schema", func_name |-> <<"f", "v">>,
                      func |-> [params |-> ps, doc |-> doc]]
    /\ response = Idle

GenerateSchema ==
    /\ pc = "schema"
    /\ response = Idle
    /\ response' = [op |-> "generate_mcp_tool_schema",
                    result |-> generate_mcp_tool_schema(request.func_name,
                                                        request.func)]
    /\ UNCHANGED <<fi_functions, tool_schemas, pc, request>>

NextSchema == GenerateSchema

SpecSchema == InitSchema /\ [][NextSchema]_vars

(* ------------------------------ dictionaries --------------------------- *)

\* dict[key] = value on a dict that keeps insertion order: a new key goes last
DictSet(d, key, value) ==
    [keys |-> IF key \in DOMAIN d.map THEN d.keys ELSE Append(d.keys, key),
     map |-> [k \in DOMAIN d.map \cup {key} |->
                 IF k = key THEN value ELSE d.map[k]]]

\* key in d
Has(d, key) == key \in DOMAIN d.map

(* --------------------------- schema catalog ---------------------------- *)

\* generate_all_tool_schemas with the try around the whole loop: the first
\* failure ends the loop
RECURSIVE SchemasUntilFailure(_, _, _)
SchemasUntilFailure(fi_funcs, i, schemas) ==
    IF i > Len(fi_funcs.keys)
    THEN schemas
    ELSE LET func_name == fi_funcs.keys[i]
             r == generate_mcp_tool_schema(func_name, fi_funcs.map[func_name])
         IN  IF r.ok
             THEN SchemasUntilFailure(fi_funcs, i + 1,
                                      DictSet(schemas, r.schema.name, r.schema))
             ELSE schemas

GenerateAllUntilFailure(fi_funcs) ==
    SchemasUntilFailure(fi_funcs, 1, EmptyDict)

\* generate_all_tool_schemas storing each schema under the function's name
RECURSIVE SchemasByFuncName(_, _, _)
SchemasByFuncName(fi_funcs, i, schemas) ==
    IF i > Len(fi_funcs.keys)
    THEN schemas
    ELSE LET func_name == fi_funcs.keys[i]
             r == generate_mcp_tool_schema(func_name, fi_funcs.map[func_name])
         IN  IF r.ok
             THEN SchemasByFuncName(fi_funcs, i + 1,
                                    DictSet(schemas, func_name, r.schema))
             ELSE SchemasByFuncName(fi_funcs, i + 1, schemas)

GenerateAllByFuncName(fi_funcs) ==
    SchemasByFuncName(fi_funcs, 1, EmptyDict)

\* the loop of generate_all_tool_schemas from item i on: a schema that
\* builds is stored under its tool name, a failure is logged and skipped
RECURSIVE SchemasFrom(_, _, _)
SchemasFrom(fi_funcs, i, schemas) ==
    IF i > Len(fi_funcs.keys)
    THEN schemas
    ELSE LET func_name == fi_funcs.keys[i]
             r == generate_mcp_tool_schema(func_name, fi_funcs.map[func_name])
         IN  IF r.ok
             THEN SchemasFrom(fi_funcs, i + 1,
                              DictSet(schemas, r.schema.name, r.schema))
             ELSE SchemasFrom(fi_funcs, i + 1, schemas)

generate_all_tool_schemas(fi_funcs) ==
    SchemasFrom(fi_funcs, 1, EmptyDict)

(* ------------------------- help documentation -------------------------- *)

NO_DOCUMENTATION_AVAILABLE ==
    <<"N", "o", " ", "d", "o", "c", "u", "m", "e", "n", "t", "a", "t", "i",
      "o", "n", " ", "a", "v", "a", "i", "l", "a", "b", "l", "e", ".">>

\* the resource URI prefix
HELP_PREFIX == <<"f", "i", ":", "/", "/", "h", "e", "l", "p", "/">>

\* the name of the aggregate resource
ALL == <<"a", "l", "l">>

\* the divider between the blocks of the aggregate resource
DIVIDER == <<"\n", "\n", "-", "-", "-", "\n", "\n">>

\* str.upper on one character, for the characters of the names drawn
upper(c) ==
    CASE c = "a" -> "A" [] c = "f" -> "F" [] c = "i" -> "I" [] c = "l" -> "L"
      [] c = "o" -> "O" [] c = "p" -> "P" [] c = "t" -> "T" [] c = "v" -> "V"
      [] OTHER -> c

\* the cased characters of the names drawn
Letters == {"a", "f", "i", "l", "o", "p", "t", "v"}

\* str.title on a lower-case string: a letter that follows no letter is
\* upper-cased
title(s) ==
    [i \in 1..Len(s) |->
        IF i = 1 \/ s[i - 1] \notin Letters THEN upper(s[i]) ELSE s[i]]

\* _format_function_name
format_function_name(func_name) ==
    LET formatted == title(Replace(func_name, <<"_">>, <<" ">>))
    IN  Replace(Replace(formatted, <<"F", "i">>, <<"F", "I">>),
                <<"P", "o", "t">>, <<"P", "O", "T">>)

\* _get_function_docstring
get_function_docstring(func) ==
    IF Truthy(func.doc) THEN cleandoc(func.doc) ELSE NO_DOCUMENTATION_AVAILABLE

\* _format_function_help
format_function_help(func_name, func, heading_level) ==
    [i \in 1..heading_level |-> "#"] \o <<" ">>
        \o format_function_name(func_name) \o <<"\n", "\n">>
        \o get_function_docstring(func)

\* sorted() left out: the items in the dict's own order
Unsorted(names) == names

\* sorted(names): insertion into an ascending list, one name at a time
RECURSIVE InsertSorted(_, _)
InsertSorted(name, sorted_names) ==
    IF sorted_names = <<>>
    THEN <<name>>
    ELSE IF StrLess(name, Head(sorted_names))
         THEN <<name>> \o sorted_names
         ELSE <<Head(sorted_names)>> \o InsertSorted(name, Tail(sorted_names))

RECURSIVE SortFrom(_, _, _)
SortFrom(names, i, acc) ==
    IF i > Len(names)
    THEN acc
    ELSE SortFrom(names, i + 1, InsertSorted(names[i], acc))

sorted(names) == SortFrom(names, 1, <<>>)

(* ------------------------------ dispatcher ----------------------------- *)

\* no underlying function was invoked
NoCall == [kind |-> "none"]

\* a handler returned content
Return(op, text, call) ==
    [op |-> op, kind |-> "return", text |-> text, call |-> call]

\* a handler raised ValueError(text) to its caller
Raise(op, text, call) ==
    [op |-> op, kind |-> "raise", text |-> text, call |-> call]

\* list_tools: one Tool per catalog entry, in the catalog's order
list_tools_result ==
    [i \in 1..Len(tool_schemas.keys) |->
        LET schema == tool_schemas.map[tool_schemas.keys[i]]
        IN  [name |-> schema.name,
             description |-> schema.description,
             inputSchema |-> schema.parameters]]

\* list_resources: the URI of one resource per function, then the aggregate
list_resources_result ==
    [i \in 1..Len(fi_functions.keys) |-> HELP_PREFIX \o fi_functions.keys[i]]
        \o <<HELP_PREFIX \o ALL>>

\* read_resource
read_resource_result(uri) ==
    IF ~StartsWith(uri, HELP_PREFIX)
    THEN Raise("read_resource",
                   <<"U", "n", "k", "n", "o", "w", "n", " ", "r", "e", "s",
                     "o", "u", "r", "c", "e", " ", "U", "R", "I", ":", " ">>
                   \o uri, NoCall)
    ELSE LET func_name == Replace(uri, HELP_PREFIX, <<>>)
         IN  IF func_name = ALL
             THEN LET names == sorted(fi_functions.keys)
                      all_help == [i \in 1..Len(names) |->
                                      format_function_help(names[i],
                                          fi_functions.map[names[i]], 2)]
                  IN  Return("read_resource", Join(DIVIDER, all_help), NoCall)
             ELSE IF Has(fi_functions, func_name)
                  THEN Return("read_resource",
                              format_function_help(func_name,
                                  fi_functions.map[func_name], 1), NoCall)
                  ELSE Raise("read_resource",
                            <<"U", "n", "k", "n", "o", "w", "n", " ", "f",
                              "u", "n", "c", "t", "i", "o", "n", ":", " ">>
                                 \o func_name, NoCall)

\* the results an underlying function may return
Results == {"8318", None}

\* the messages of the exceptions an underlying function may raise
Messages == {<<"b", "a", "d">>,
             <<>>}

\* what a call of an underlying function may do: return a value, or raise
Outcomes ==
    {[kind |-> "return", value |-> v] : v \in Results}
    \cup {[kind |-> "raise", msg |-> m] : m \in Messages}

\* str(result)
str(value) ==
    CASE value = "8318" -> <<"8", "3", "1", "8">>
      [] value = None -> <<"N", "o", "n", "e">>

\* the except clause of call_tool left out: the exception reaches the caller
PropagateException(name, msg, call) == Raise("call_tool", msg, call)

\* the except clause of call_tool
HandleException(name, msg, call) ==
    LET error_msg ==
            <<"E", "r", "r", "o", "r", " ", "e", "x", "e", "c", "u", "t",
              "i", "n", "g", " ">>
            \o name \o <<":", " ">> \o msg
    IN  Return("call_tool", <<"E", "r", "r", "o", "r", ":", " ">> \o error_msg,
               call)

\* call_tool; outcome is what the underlying function does if it is invoked
call_tool_result(name, arguments, outcome) ==
    IF ~StartsWith(name, FI_PREFIX)
    THEN Raise("call_tool",
                   <<"I", "n", "v", "a", "l", "i", "d", " ", "t", "o", "o",
                     "l", " ", "n", "a", "m", "e", ":", " ">>
                   \o name, NoCall)
    ELSE LET func_name == DropFirst(name, 3)
         IN  IF ~Has(fi_functions, func_name)
             THEN Raise("call_tool",
                            <<"U", "n", "k", "n", "o", "w", "n", " ", "f",
                              "u", "n", "c", "t", "i", "o", "n", ":", " ">>
                            \o func_name, NoCall)
             ELSE LET fun_params == fi_functions.map[func_name].params
                      missing_args == validate_mcp_arguments(fun_params, arguments)
                      bound == get_mcp_func_args(fun_params, arguments)
                      call == [kind |-> outcome.kind, func_name |-> func_name,
                               fun_args |-> bound.fun_args,
                               outcome |-> outcome]
                  IN  IF missing_args # <<>>
                      THEN Return("call_tool",
                                  <<"E", "r", "r", "o", "r", ":", " ">>
                                      \o <<"M", "i", "s", "s", "i", "n", "g",
                                        " ", "r", "e", "q", "u", "i", "r",
                                        "e", "d", " ", "a", "r", "g", "u",
                                        "m", "e", "n", "t", "s", ":", " ">>
                                      \o Join(<<",", " ">>, missing_args), NoCall)
                      ELSE IF bound.fail
                      THEN Return("call_tool",
                                  <<"E", "r", "r", "o", "r", ":", " ">>
                                      \o <<"F", "a", "i", "l", "e", "d", " ",
                                        "t", "o", " ", "c", "o", "n", "v",
                                        "e", "r", "t", " ", "a", "r", "g",
                                        "u", "m", "e", "n", "t", "s">>,
                                  NoCall)
                      ELSE IF outcome.kind = "raise"
                      THEN HandleException(name, outcome.msg, call)
                      ELSE Return("call_tool", str(outcome.value), call)

(* -------------------- inputs of the server specification --------------- *)

\* most functions a discovery returns
MaxFuncs == 2

\* the names of the functions a discovery may find
FuncNames ==
    {<<"a", "l", "l">>, <<"f", "_", "v">>, <<"f", "i">>, <<"p", "o", "t">>}

\* the functions a discovery may find: documented or not, with a
\* description or only a heading, with required and optional parameters
FuncEntries ==
    {[params |-> <<Param(<<"x">>, empty, "float"),
                   Param(<<"y">>, "d1", "List[float]")>>,
      doc |-> <<"a", " ", "\n", "a">>],
     [params |-> <<>>, doc |-> <<"a">>],
     [params |-> <<>>, doc |-> NoDoc],
     [params |-> <<Param(<<"y">>, empty, "Money"),
                   Param(<<"x">>, empty, "int")>>,
      doc |-> <<"#", "#", "#", "a">>]}

\* the registries of at most n functions: names distinct, in any order
RECURSIVE Registries(_)
Registries(n) ==
    IF n = 0
    THEN {EmptyDict}
    ELSE LET smaller == Registries(n - 1)
         IN  smaller \cup
             {DictSet(d, nm, f) :
                 d \in {r \in smaller : Len(r.keys) = n - 1},
                 nm \in FuncNames, f \in FuncEntries}

\* the tool names requested: each name with the prefix, one without it, one
\* with another prefix, and the bare prefix
ToolNames ==
    {FI_PREFIX \o n : n \in FuncNames}
    \cup {<<"f", "i">>, <<"x", "_">> \o <<"a", "l", "l">>, FI_PREFIX}

\* the payloads requested
ToolPayloads ==
    UNION {[keys -> {None, "v1"}] : keys \in SUBSET {<<"x">>, <<"y">>}}

\* the URIs read: the listed ones, the bare prefix, a bare name, a URI of
\* another scheme, an unknown name, and the prefix repeated
Uris ==
    {HELP_PREFIX \o n : n \in FuncNames \cup {ALL}}
    \cup {HELP_PREFIX, ALL, <<"f", "i", ":", "/", "/", "x">>,
          HELP_PREFIX \o <<"x">>, HELP_PREFIX \o HELP_PREFIX \o ALL}

Init ==
    /\ fi_functions = EmptyDict
    /\ tool_schemas = EmptyDict
    /\ pc = "start"
    /\ request = Idle
    /\ response = Idle

\* initialize_server: get_fi_functions returns whatever the library holds
initialize_server ==
    /\ pc = "start"
    /\ \E discovered \in Registries(MaxFuncs) :
           /\ fi_functions' = discovered
           /\ tool_schemas' = generate_all_tool_schemas(discovered)
    /\ pc' = "serving"
    /\ UNCHANGED <<request, response>>

list_tools ==
    /\ pc = "serving"
    /\ request' = [op |-> "list_tools"]
    /\ response' = [op |-> "list_tools", kind |-> "return",
                    tools |-> list_tools_result]
    /\ pc' = "responded"
    /\ UNCHANGED <<fi_functions, tool_schemas>>

list_resources ==
    /\ pc = "serving"
    /\ request' = [op |-> "list_resources"]
    /\ response' = [op |-> "list_resources", kind |-> "return",
                    uris |-> list_resources_result]
    /\ pc' = "responded"
    /\ UNCHANGED <<fi_functions, tool_schemas>>

read_resource ==
    /\ pc = "serving"
    /\ \E uri \in Uris :
           /\ request' = [op |-> "read_resource", uri |-> uri]
           /\ response' = read_resource_result(uri)
    /\ pc' = "responded"
    /\ UNCHANGED <<fi_functions, tool_schemas>>

\* call_tool taking the function out of the registry (dict.pop) where the
\* code reads it (fi_functions[func_name])
call_tool_popping ==
    /\ pc = "serving"
    /\ \E name \in ToolNames, arguments \in ToolPayloads, outcome \in Outcomes :
           /\ request' = [op |-> "call_tool", name |-> name,
                          arguments |-> arguments]
           /\ response' = call_tool_result(name, arguments, outcome)
           /\ LET func_name == DropFirst(name, 3)
                  kept == SelectSeq(fi_functions.keys,
                                    LAMBDA k : k # func_name)
              IN  fi_functions' =
                      IF StartsWith(name, FI_PREFIX)
                      THEN [keys |-> kept,
                            map |-> [k \in DOMAIN fi_functions.map
                                            \ {func_name} |->
                                        fi_functions.map[k]]]
                      ELSE fi_functions
    /\ pc' = "responded"
    /\ UNCHANGED tool_schemas

call_tool ==
    /\ pc = "serving"
    /\ \E name \in ToolNames, arguments \in ToolPayloads, outcome \in Outcomes :
           /\ request' = [op |-> "call_tool", name |-> name,
                          arguments |-> arguments]
           /\ response' = call_tool_result(name, arguments, outcome)
    /\ pc' = "responded"
    /\ UNCHANGED <<fi_functions, tool_schemas>>

\* the serving loop of main: the response, a handler's result or its
\* exception, is written and the next request awaited
next_request ==
    /\ pc = "responded"
    /\ pc' = "serving"
    /\ request' = Idle
    /\ response' = Idle
    /\ UNCHANGED <<fi_functions, tool_schemas>>

Next ==
    \/ initialize_server
    \/ list_tools
    \/ list_resources
    \/ read_resource
    \/ call_tool
    \/ next_request

Spec == Init /\ [][Next]_vars

(* ------------------------- properties: binder -------------------------- *)

\* the position of the parameter called name in a signature
IndexOf(fun_params, name) ==
    CHOOSE i \in 1..Len(fun_params) : fun_params[i].name = name

\* C3: when get_mcp_func_args succeeds, the argument list has one element
\* per declared parameter, in declaration order: the payload's value where
\* the parameter's name is a key of the payload, the declared default where
\* it is not.
C3_BoundArgsFollowDeclaration ==
    (response.op = "get_mcp_func_args" /\ ~response.fail) =>
        LET ps == request.fun_params
            args == request.mcp_arguments
        IN  /\ Len(response.fun_args) = Len(ps)
            /\ \A i \in 1..Len(ps) :
                   response.fun_args[i] =
                       IF ps[i].name \in DOMAIN args
                       THEN args[ps[i].name]
                       ELSE ps[i].default

\* C4: validate_mcp_arguments returns exactly the names of the parameters
\* that declare no default and are not keys of the payload, each once, in
\* declaration order.
C4_MissingExactlyRequiredAbsent ==
    response.op = "validate_mcp_arguments" =>
        LET ps == request.fun_params
            args == request.mcp_arguments
            m == response.missing
        IN  /\ {m[i] : i \in 1..Len(m)} =
                   {ps[i].name : i \in {j \in 1..Len(ps) :
                                           /\ ps[j].default = empty
                                           /\ ps[j].name \notin DOMAIN args}}
            /\ \A i, j \in 1..Len(m) :
                   i < j => IndexOf(ps, m[i]) < IndexOf(ps, m[j])

\* a required parameter supplied with a null value is not reported while
\* another required parameter, absent from the payload, is
C4_Witness ==
    /\ response.op = "validate_mcp_arguments"
    /\ Len(response.missing) = 1
    /\ \E i \in 1..Len(request.fun_params) :
           /\ request.fun_params[i].default = empty
           /\ request.fun_params[i].name \in DOMAIN request.mcp_arguments
           /\ request.mcp_arguments[request.fun_params[i].name] = None

(* --------------------- properties: schema generator -------------------- *)

\* C5: in a generated schema, a parameter declared as a sequence of floats
\* or of integers has type "array" and an "items" entry of type "number".
C5_SequenceHasNumberItems ==
    (response.op = "generate_mcp_tool_schema" /\ response.result.ok) =>
        \A i \in 1..Len(request.func.params) :
            request.func.params[i].annotation \in {"List[float]", "List[int]"}
            => LET prop == response.result.schema.parameters.properties[
                               request.func.params[i].name]
               IN  /\ prop.type = "array"
                   /\ "items" \in DOMAIN prop
                   /\ prop.items.type = "number"

\* a docstring has text before its first heading marker
HasDescriptionText(doc) ==
    /\ doc # NoDoc
    /\ \E i \in 1..Len(doc) :
           /\ doc[i] \notin Whitespace
           /\ \A j \in 1..i : ~OccursAt(doc, <<"#", "#", "#">>, j)

\* C8: generate_mcp_tool_schema fails exactly when the function has no
\* docstring or no text before the first heading marker of its docstring,
\* and a schema it returns has a non-empty description.
C8_FailsExactlyWithoutDescription ==
    response.op = "generate_mcp_tool_schema" =>
        /\ response.result.ok <=> HasDescriptionText(request.func.doc)
        /\ response.result.ok => response.result.schema.description # <<>>

\* a docstring that holds text, all of it after a heading marker, is refused
C8_Witness ==
    /\ response.op = "generate_mcp_tool_schema"
    /\ ~response.result.ok
    /\ request.func.doc # NoDoc
    /\ \E i \in 1..Len(request.func.doc) : request.func.doc[i] = "a"

(* ------------------------ properties: dispatcher ----------------------- *)

\* call_tool's request fails validation: no prefix, an unknown function,
\* a required argument missing, or a bind that fails
InvalidRequest(name, arguments) ==
    IF ~StartsWith(name, FI_PREFIX)
    THEN TRUE
    ELSE IF ~Has(fi_functions, DropFirst(name, 3))
    THEN TRUE
    ELSE LET fun_params == fi_functions.map[DropFirst(name, 3)].params
         IN  \/ validate_mcp_arguments(fun_params, arguments) # <<>>
             \/ get_mcp_func_args(fun_params, arguments).fail

\* C1: every call_tool request that fails validation is answered with a
\* text result that starts with "Error: "; no exception reaches the caller.
C1_ValidationFailuresAreErrorText ==
    (response.op = "call_tool"
        /\ InvalidRequest(request.name, request.arguments))
    => /\ response.kind = "return"
       /\ StartsWith(response.text, <<"E", "r", "r", "o", "r", ":", " ">>)

\* C2: when the underlying function raises, call_tool returns a text result
\* that starts with "Error: " and contains the exception's message; the
\* exception does not reach the caller.
C2_FunctionExceptionRendered ==
    (response.op = "call_tool" /\ response.call.kind = "raise")
    => /\ response.kind = "return"
       /\ StartsWith(response.text, <<"E", "r", "r", "o", "r", ":", " ">>)
       /\ Contains(response.text, response.call.outcome.msg)

\* the underlying function raised an exception that carries a message
C2_Witness ==
    /\ response.op = "call_tool"
    /\ response.call.kind = "raise"
    /\ response.call.outcome.msg # <<>>
    /\ response.kind = "return"

\* C6: the catalog holds the schema of every function whose schema builds
\* and no entry for a function whose build fails; it is no larger than the
\* registry, and as large when every function has a description.
C6_CatalogSkipsOnlyFailedBuilds ==
    pc # "start" =>
        /\ \A n \in DOMAIN fi_functions.map :
               LET r == generate_mcp_tool_schema(n, fi_functions.map[n])
               IN  IF r.ok
                   THEN /\ Has(tool_schemas, FI_PREFIX \o n)
                        /\ tool_schemas.map[FI_PREFIX \o n] = r.schema
                   ELSE ~Has(tool_schemas, FI_PREFIX \o n)
        /\ Len(tool_schemas.keys) <= Len(fi_functions.keys)
        /\ (\A n \in DOMAIN fi_functions.map :
                HasDescriptionText(fi_functions.map[n].doc))
           => Len(tool_schemas.keys) = Len(fi_functions.keys)

\* a function whose build fails was discovered before one whose build
\* succeeds, and only the second is in the catalog
C6_Witness ==
    /\ pc # "start"
    /\ Len(fi_functions.keys) = 2
    /\ ~HasDescriptionText(fi_functions.map[fi_functions.keys[1]].doc)
    /\ HasDescriptionText(fi_functions.map[fi_functions.keys[2]].doc)
    /\ tool_schemas.keys = <<FI_PREFIX \o fi_functions.keys[2]>>

\* C7: after initialize_server the tool names of the catalog are exactly
\* the names of the discovered functions, each with the prefix "fi_".
C7_ToolNamesAreImageOfFunctionNames ==
    pc # "start" =>
        DOMAIN tool_schemas.map =
            {FI_PREFIX \o n : n \in DOMAIN fi_functions.map}

\* C7 as amended: after initialize_server the tool names of the catalog are
\* exactly the prefixed names of the discovered functions whose docstring
\* has a description.
C7_ToolNamesAreImageOfDescribedFunctions ==
    pc # "start" =>
        DOMAIN tool_schemas.map =
            {FI_PREFIX \o n :
                n \in {m \in DOMAIN fi_functions.map :
                          HasDescriptionText(fi_functions.map[m].doc)}}

\* one discovered function is in the catalog and another one is not
C7_Witness ==
    /\ pc # "start"
    /\ Len(fi_functions.keys) = 2
    /\ Len(tool_schemas.keys) = 1

\* s.split(sep) for a separator of several characters
RECURSIVE SplitSub(_, _)
SplitSub(s, sep) ==
    IF ~Contains(s, sep)
    THEN <<s>>
    ELSE LET i == CHOOSE k \in 1..Len(s) :
                      /\ OccursAt(s, sep, k)
                      /\ \A j \in 1..(k - 1) : ~OccursAt(s, sep, j)
         IN  <<SubSeq(s, 1, i - 1)>>
                 \o SplitSub(DropFirst(s, i + Len(sep) - 1), sep)

\* the place of a function name among the registered names, ascending
Rank(n) ==
    1 + Cardinality({m \in DOMAIN fi_functions.map : StrLess(m, n)})

\* C9: reading fi://help/all returns the blocks of the registered
\* functions, each function once, in ascending order of the names, with
\* the divider between consecutive blocks.
C9_AggregateOneBlockPerFunctionSorted ==
    (response.op = "read_resource" /\ request.uri = HELP_PREFIX \o ALL)
    => /\ response.kind = "return"
       /\ LET names == DOMAIN fi_functions.map
              blocks == SplitSub(response.text, DIVIDER)
          IN  IF names = {}
              THEN response.text = <<>>
              ELSE /\ Len(blocks) = Cardinality(names)
                   /\ \A n \in names :
                          blocks[Rank(n)] =
                              format_function_help(n, fi_functions.map[n], 2)

\* the aggregate is read from a registry whose two functions were
\* discovered in descending order of their names
C9_Witness ==
    /\ response.op = "read_resource"
    /\ request.uri = HELP_PREFIX \o ALL
    /\ response.kind = "return"
    /\ Len(fi_functions.keys) = 2
    /\ StrLess(fi_functions.keys[2], fi_functions.keys[1])

\* C10: read_resource succeeds only for a URI that list_resources lists:
\* fi://help/all, or fi://help/<name> for a registered function name.
C10_ReadSucceedsOnlyForListedUris ==
    (response.op = "read_resource" /\ response.kind = "return")
    => \E i \in 1..Len(list_resources_result) :
           request.uri = list_resources_result[i]

\* C11: once initialize_server has completed, no request, successful or
\* failing, changes the function registry or the catalog.
C11_RegistryAndCatalogReadOnly ==
    [][pc # "start" =>
          (fi_functions' = fi_functions /\ tool_schemas' = tool_schemas)]_vars

\* requests of each kind have been answered over a non-empty catalog: a
\* call that invoked a function, and a call and a read that raised
C11_Witness ==
    /\ pc = "responded"
    /\ Len(tool_schemas.keys) >= 1
    /\ \/ response.op = "call_tool" /\ response.call.kind = "return"
       \/ response.op = "call_tool" /\ response.kind = "raise"
       \/ response.op = "read_resource" /\ response.kind = "raise"

(* --------------------- properties: binder, continued ------------------- *)

\* C12: a parameter whose name is a key of the payload is bound to the
\* payload's value for that key, a null value included: the bind fails only
\* over a required parameter that is absent from the payload, and a bind that
\* succeeds holds the payload's value at the position of every supplied
\* parameter.
C12_SuppliedValueBoundAsIs ==
    response.op = "get_mcp_func_args" =>
        LET ps == request.fun_params
            args == request.mcp_arguments
        IN  /\ response.fail =>
                   \E i \in 1..Len(ps) :
                       /\ ps[i].default = empty
                       /\ ps[i].name \notin DOMAIN args
            /\ ~response.fail =>
                   \A i \in 1..Len(ps) :
                       ps[i].name \in DOMAIN args
                       => response.fun_args[i] = args[ps[i].name]

\* C14: get_mcp_func_args signals failure exactly when
\* validate_mcp_arguments reports a missing name, so that a bind run after
\* an empty report cannot fail.
C14_BindFailsExactlyWhenValidationDoes ==
    response.op = "get_mcp_func_args" =>
        (response.fail <=>
            validate_mcp_arguments(request.fun_params,
                                   request.mcp_arguments) # <<>>)

(* ---------------- properties: schema generator, continued -------------- *)

\* the kind of a declared type
KindOf(type_annotation) ==
    CASE type_annotation \in {"List[float]", "List[int]"} -> "sequence"
      [] type_annotation \in {"Dict[str, float]", "Dict[str, List[float]]"}
             -> "mapping"
      [] type_annotation \in {"float", "'float'", "Optional[float]"}
             -> "float"
      [] type_annotation = "int" -> "integer"
      [] type_annotation = "str" -> "text"
      [] type_annotation = "bool" -> "boolean"
      [] OTHER -> "other"

\* the schema type C13 gives a kind
SchemaTypeOfKind(kind) ==
    CASE kind = "sequence" -> "array"
      [] kind = "mapping" -> "object"
      [] kind = "float" -> "number"
      [] kind = "integer" -> "integer"
      [] kind = "text" -> "string"
      [] kind = "boolean" -> "boolean"
      [] OTHER -> "string"

\* C13: every declared parameter type converts to the schema type of its
\* kind: a sequence to "array" and a mapping to "object" whatever the
\* element types, then float to "number", integer to "integer", text to
\* "string", boolean to "boolean", and any other type to "string".
C13_TypeConvertsByKind ==
    (response.op = "generate_mcp_tool_schema" /\ response.result.ok) =>
        \A i \in 1..Len(request.func.params) :
            response.result.schema.parameters.properties[
                    request.func.params[i].name].type
                = SchemaTypeOfKind(KindOf(request.func.params[i].annotation))

(* ------------------ properties: dispatcher, continued ------------------ *)

\* C15: call_tool invokes an underlying function only for a tool name that
\* is a key of the catalog.
C15_InvokesOnlyPublishedTools ==
    (response.op = "call_tool" /\ response.call.kind # "none")
    => Has(tool_schemas, request.name)

=============================================================================
